---- MODULE Spec2Model ----
(***************************************************************************)
(* A model of utils/generate_protocol_types.py: the compilation of a       *)
(* protocol schema (domains declaring types, commands and events) into     *)
(* TypedDict declarations and a Protocol namespace.                        *)
(*                                                                         *)
(* Text.  A Python string is modelled as a sequence of atoms (TLA+         *)
(* strings); the string is the concatenation of its atoms.  The atoms are  *)
(* chosen so that every test the program makes on its text (substring,     *)
(* startswith, split, replace, the three regular expressions) falls on     *)
(* atom boundaries: a quote, a dot and an underscore are atoms of their    *)
(* own, an identifier without underscore is one atom.  A line is a text,   *)
(* a list of lines is a sequence of texts.                                 *)
(*                                                                         *)
(* Exceptions.  A computation that raises yields a text holding an         *)
(* exception atom ("!KeyError", ...); it survives concatenation and        *)
(* substitution, and the step of the program that computed it fails.       *)
(***************************************************************************)
EXTENDS Integers, Sequences, FiniteSets, TLC

(***************************************************************************)
(* Bounds of the model.                                                    *)
(***************************************************************************)
\* references between the object types of a generated reference graph
MaxRefs == 4
\* nesting of resolve_forward_ref_on_line before the interpreter gives up
\* (sys.getrecursionlimit() in the program; an alias chain of the schemas
\* below is at most three deep)
MaxNesting == 5

(***************************************************************************)
(* Text helpers: Python's str operations on sequences of atoms.            *)
(***************************************************************************)
Errors == {"!KeyError", "!AssertionError", "!RecursionError"}

\* atoms that hold a character outside \w
NonWord ==
    { "'", ".", ": ", " = ", "[", "]", ", ", "    ", "class ", ":", "(TypedDict",
      ", total=False", "):", "Dict[str, str]", "Dict[str, Dict[str, Any]]",
      "\"\"\"", "header" } \cup Errors

IsWord(a) == a \notin NonWord

\* pat occurs in t at index i
StartsAt(t, i, pat) ==
    /\ i >= 1
    /\ i + Len(pat) - 1 <= Len(t)
    /\ \A k \in 1..Len(pat) : t[i + k - 1] = pat[k]

\* Python: pat in t
Contains(t, pat) == \E i \in 1..Len(t) : StartsAt(t, i, pat)

\* Python: t.startswith(a) for an atom a
StartsWith(t, a) == Len(t) >= 1 /\ t[1] = a

RECURSIVE ReplaceFrom(_, _, _, _)
ReplaceFrom(t, i, old, new) ==
    IF i > Len(t) THEN <<>>
    ELSE IF StartsAt(t, i, old)
         THEN new \o ReplaceFrom(t, i + Len(old), old, new)
         ELSE <<t[i]>> \o ReplaceFrom(t, i + 1, old, new)

\* Python: t.replace(old, new), old not empty
Replace(t, old, new) == ReplaceFrom(t, 1, old, new)

\* the index of the last atom of the maximal run of word atoms starting at i
\* (i - 1 when t[i] is no word atom): what \w+ consumes at i
RECURSIVE WordRunEnd(_, _)
WordRunEnd(t, i) ==
    IF i <= Len(t) /\ IsWord(t[i]) THEN WordRunEnd(t, i + 1) ELSE i - 1

\* Python: t.strip("'")
RECURSIVE StripQuotes(_)
StripQuotes(t) ==
    IF Len(t) >= 1 /\ t[1] = "'" THEN StripQuotes(Tail(t))
    ELSE IF Len(t) >= 1 /\ t[Len(t)] = "'" THEN StripQuotes(SubSeq(t, 1, Len(t) - 1))
    ELSE t

\* Python: len(t.split(sep)) for an atom sep
RECURSIVE CountAtom(_, _)
CountAtom(t, a) ==
    IF t = <<>> THEN 0 ELSE (IF Head(t) = a THEN 1 ELSE 0) + CountAtom(Tail(t), a)

\* the first exception atom of a text, "" when it has none
RECURSIVE FirstError(_)
FirstError(t) ==
    IF t = <<>> THEN ""
    ELSE IF Head(t) \in Errors THEN Head(t) ELSE FirstError(Tail(t))

\* concatenation of a sequence of texts
RECURSIVE Flatten(_)
Flatten(ts) == IF ts = <<>> THEN <<>> ELSE Head(ts) \o Flatten(Tail(ts))

\* Python: sep.join(lines)
RECURSIVE Join(_, _)
Join(lines, sep) ==
    IF lines = <<>> THEN <<>>
    ELSE IF Len(lines) = 1 THEN lines[1]
    ELSE lines[1] \o <<sep>> \o Join(Tail(lines), sep)

\* Python dict access on a schema node: key in d
Has(d, k) == k \in DOMAIN d

(***************************************************************************)
(* ProtocolTypesGenerator: type expressions.                               *)
(***************************************************************************)
MAX_RECURSIVE_TYPE_EXPANSION_DEPTH == 2

\* js_to_py_types, as a function on the names it maps
js_to_py_types ==
    [n \in {"any", "string", "object", "boolean", "number", "integer", "binary"} |->
        CASE n = "any" -> <<"Any">>
          [] n = "string" -> <<"str">>
          [] n = "object" -> <<"Dict[str, str]">>
          [] n = "boolean" -> <<"bool">>
          [] n = "number" -> <<"float">>
          [] n = "integer" -> <<"int">>
          [] n = "binary" -> <<"bytes">>]

\* js_to_py_types.values()
PyTypeValues == {js_to_py_types[n] : n \in DOMAIN js_to_py_types}

\* self.js_to_py_types[name]: a KeyError for a name the table does not hold
PrimitiveLookup(name) ==
    IF name \in DOMAIN js_to_py_types THEN js_to_py_types[name] ELSE <<"!KeyError">>

\* get_forward_ref: relative_ref is a path, a text of names separated by "."
get_forward_ref(relative_ref, potential_domain_context) ==
    IF CountAtom(relative_ref, ".") + 1 = 2
    THEN <<"'", "Protocol", ".">> \o relative_ref \o <<"'">>
    ELSE <<"'", "Protocol", ".", potential_domain_context, ".">> \o relative_ref \o <<"'">>

\* ", ".join([f"'{x}'" for x in enum])
RECURSIVE EnumVals(_)
EnumVals(vals) ==
    IF vals = <<>> THEN <<>>
    ELSE <<"'", Head(vals), "'">>
         \o (IF Len(vals) > 1 THEN <<", ">> ELSE <<>>) \o EnumVals(Tail(vals))

\* convert_js_to_py_type for a dict; the str case of the function (reached
\* only through its own recursion on items["type"]) is PrimitiveLookup
convert_js_to_py_type(type_info, domain_name) ==
    IF Has(type_info, "items")
    THEN IF ~Has(type_info, "type") THEN <<"!KeyError">>
         ELSE IF type_info["type"] # "array" THEN <<"!AssertionError">>
         ELSE IF Has(type_info["items"], "$ref")
              THEN <<"List", "[">>
                   \o get_forward_ref(type_info["items"]["$ref"], domain_name) \o <<"]">>
              ELSE IF ~Has(type_info["items"], "type") THEN <<"!KeyError">>
                   ELSE <<"List", "[">>
                        \o PrimitiveLookup(type_info["items"]["type"]) \o <<"]">>
    ELSE IF Has(type_info, "$ref")
         THEN get_forward_ref(type_info["$ref"], domain_name)
         ELSE IF Has(type_info, "enum")
              THEN <<"Literal", "[">> \o EnumVals(type_info["enum"]) \o <<"]">>
              ELSE IF ~Has(type_info, "type") THEN <<"!KeyError">>
                   ELSE PrimitiveLookup(type_info["type"])

(***************************************************************************)
(* TypingCodeGenerator, TypedDictGenerator, IndentManager.                 *)
(***************************************************************************)
\* str(IndentManager) after n __enter__
RECURSIVE Indent(_)
Indent(n) == IF n = 0 THEN <<>> ELSE <<"    ">> \o Indent(n - 1)

\* add_newlines(num) under indentation n: add('\n' * num) splits into num + 1
\* empty lines, each prefixed with the indentation
Newlines(num, n) == [k \in 1..(num + 1) |-> Indent(n)]

\* add_comment_from_info under indentation n
CommentLines(info, n) ==
    IF Has(info, "description") THEN << Indent(n) \o <<"# ", info["description"]>> >> ELSE <<>>

\* TypedDictGenerator.__init__
TypedDictGenerator(name, total) ==
    [name |-> name, total |-> total,
     code_lines |-> << <<"class ">> \o name \o <<"(TypedDict">>
                       \o (IF total THEN <<", total=False">> ELSE <<>>) \o <<"):">> >>]

\* the position of the entry called name in an ordered dict of TypedDicts; 0 if none
TdIndex(tds, name) ==
    IF \E i \in 1..Len(tds) : tds[i].name = name
    THEN CHOOSE i \in 1..Len(tds) : tds[i].name = name
    ELSE 0

\* Python: tds[td.name] = td (a dict keeps the place of a key it already holds)
DictSet(tds, td) ==
    IF TdIndex(tds, td.name) = 0 THEN Append(tds, td)
    ELSE [tds EXCEPT ![TdIndex(tds, td.name)] = td]

\* Python: tds.update(more)
RECURSIVE DictUpdate(_, _)
DictUpdate(tds, more) ==
    IF more = <<>> THEN tds ELSE DictUpdate(DictSet(tds, Head(more)), Tail(more))

\* the order of Python's str comparison on the atoms that tell two names of one
\* generate_typed_dicts result apart: a depth digit
AtomRank(a) == CASE a = "0" -> 0 [] a = "1" -> 1 [] a = "2" -> 2 [] OTHER -> 3

RECURSIVE StrLess(_, _)
StrLess(a, b) ==
    IF b = <<>> THEN FALSE
    ELSE IF a = <<>> THEN TRUE
    ELSE IF Head(a) = Head(b) THEN StrLess(Tail(a), Tail(b))
    ELSE AtomRank(Head(a)) < AtomRank(Head(b))

\* sorted(tds.items(), key=lambda x: x[0])
RECURSIVE SortedByName(_)
SortedByName(tds) ==
    IF tds = <<>> THEN <<>>
    ELSE LET m == CHOOSE i \in 1..Len(tds) :
                      \A j \in 1..Len(tds) : j = i \/ StrLess(tds[i].name, tds[j].name)
             rest == [k \in 1..(Len(tds) - 1) |-> IF k < m THEN tds[k] ELSE tds[k + 1]]
         IN  <<tds[m]>> \o SortedByName(rest)

\* _multi_fallback_get: the first key of keys that d holds, a KeyError if none
RECURSIVE multi_fallback_get(_, _)
multi_fallback_get(d, keys) ==
    IF keys = <<>> THEN "!KeyError"
    ELSE IF Has(d, Head(keys)) THEN Head(keys)
    ELSE multi_fallback_get(d, Tail(keys))

\* is_total = any(1 for x in items if x.get('optional'))
IsTotal(items) == \E i \in 1..Len(items) : Has(items[i], "optional") /\ items[i]["optional"]

\* td_name after the first self-reference at _depth (lines 300-303)
NextTdName(td_name, depth) ==
    IF Contains(td_name, <<"FWRef">>)
    THEN Replace(td_name, <<"FWRef", ToString(depth - 1)>>, <<"FWRef", ToString(depth)>>)
    ELSE td_name \o <<"_", "FWRef", ToString(depth)>>

\* generate_typed_dicts: the TypedDicts of type_info, ordered by name.  The
\* loop over the items is unrolled around its one piece of state: the first
\* item holding recursive_ref fixes non_recursive_ref for the items after it.
RECURSIVE generate_typed_dicts(_, _, _, _)
generate_typed_dicts(type_info, domain_name, name, depth) ==
    LET src == multi_fallback_get(type_info, <<"returns", "parameters", "properties">>)
        idk == multi_fallback_get(type_info, <<"id", "name">>)
    IN  IF src = "!KeyError" \/ idk = "!KeyError"
        THEN << [name |-> name, total |-> FALSE, code_lines |-> << <<"!KeyError">> >>] >>
        ELSE
        LET items == type_info[src]
            recursive_ref == get_forward_ref(<<type_info[idk]>>, domain_name)
            types == [i \in 1..Len(items) |-> convert_js_to_py_type(items[i], domain_name)]
            selfref == \E i \in 1..Len(items) : Contains(types[i], recursive_ref)
            expand == selfref /\ depth < MAX_RECURSIVE_TYPE_EXPANSION_DEPTH
            td_name == IF expand THEN NextTdName(name, depth) ELSE name
            nested == IF expand
                      THEN generate_typed_dicts(type_info, domain_name, td_name, depth + 1)
                      ELSE <<>>
            non_recursive_ref == IF expand THEN td_name ELSE <<"Dict[str, Dict[str, Any]]">>
            base == TypedDictGenerator(name, IsTotal(items))
            base_td == [base EXCEPT !.code_lines = @ \o Flatten(
                          [i \in 1..Len(items) |->
                              CommentLines(items[i], 1)
                              \o << <<"    ", items[i]["name"], ": ">>
                                    \o (IF Contains(types[i], recursive_ref)
                                        THEN Replace(types[i], recursive_ref, non_recursive_ref)
                                        ELSE types[i]) >>])]
        IN  SortedByName(DictUpdate(<<base_td>>, nested))

\* TypedDictGenerator.copy_with_filter for sub_p = '_\w+_\w+' in quotes and
\* sub_r = Any: re.sub on one line, scanning from index i
RECURSIVE SubQuotedNames(_, _)
SubQuotedNames(t, i) ==
    IF i > Len(t) THEN <<>>
    ELSE LET e == WordRunEnd(t, i + 1)
             hit == /\ t[i] = "'"
                    /\ i + 1 <= Len(t) /\ t[i + 1] = "_"
                    /\ \E q \in (i + 3)..(e - 1) : t[q] = "_"
                    /\ e + 1 <= Len(t) /\ t[e + 1] = "'"
         IN  IF hit THEN <<"Any">> \o SubQuotedNames(t, e + 2)
             ELSE <<t[i]>> \o SubQuotedNames(t, i + 1)

\* copy_with_filter with the substitution left out: the copy keeps the
\* references of the original
copy_without_filter(td, new_name) ==
    LET inst == TypedDictGenerator(new_name, td.total)
    IN  [inst EXCEPT !.code_lines = @ \o
            [k \in 1..(Len(td.code_lines) - 1) |-> td.code_lines[k + 1]]]

copy_with_filter(td, new_name) ==
    LET inst == TypedDictGenerator(new_name, td.total)
    IN  [inst EXCEPT !.code_lines = @ \o
            [k \in 1..(Len(td.code_lines) - 1) |-> SubQuotedNames(td.code_lines[k + 1], 1)]]

(***************************************************************************)
(* ProtocolTypesGenerator: resolution of forward references.               *)
(***************************************************************************)
\* _forward_ref_re matched at index i of t: the index of the closing quote,
\* 0 when there is no match at i.  \w+ consumes a maximal run of word atoms.
ForwardRefEnd(t, i) ==
    IF ~StartsAt(t, i, <<"'", "Protocol", ".">>) THEN 0
    ELSE LET e1 == WordRunEnd(t, i + 3)
             e2 == WordRunEnd(t, e1 + 2)
         IN  IF /\ e1 >= i + 3
                /\ e1 + 1 <= Len(t) /\ t[e1 + 1] = "."
                /\ e2 >= e1 + 2
                /\ e2 + 1 <= Len(t) /\ t[e2 + 1] = "'"
             THEN e2 + 1
             ELSE 0

\* re.search(self._forward_ref_re, t)
HasForwardRef(t) == \E i \in 1..Len(t) : ForwardRefEnd(t, i) # 0

\* lines 69-75: a resolved value that names a TypedDict is put in quotes
QuoteTypedDict(resolved_fwref) ==
    IF /\ resolved_fwref \notin PyTypeValues
       /\ ~StartsWith(resolved_fwref, "Literal")
       /\ ~StartsWith(resolved_fwref, "List")
    THEN <<"'">> \o resolved_fwref \o <<"'">>
    ELSE resolved_fwref

\* resolve_forward_ref_on_line (ResolveFrom, scanning from index i) and
\* _resolve_forward_ref_re_sub_repl (ResolveMatch, for the match t[i..e]);
\* left counts the nestings the interpreter still allows
RECURSIVE ResolveFrom(_, _, _, _)
RECURSIVE ResolveMatch(_, _, _, _, _)
ResolveMatch(known, t, i, e, left) ==
    LET e1 == WordRunEnd(t, i + 3)
        domain_ == SubSeq(t, i + 3, e1)
        ref == SubSeq(t, e1 + 2, e - 1)
    IN  IF ~(domain_ \in DOMAIN known /\ ref \in DOMAIN known[domain_])
        THEN <<"!KeyError">>
        ELSE LET found == known[domain_][ref]
                 nested == IF ~HasForwardRef(found) THEN found
                           ELSE IF left = 0 THEN <<"!RecursionError">>
                           ELSE ResolveFrom(known, found, 1, left - 1)
             IN  QuoteTypedDict(nested)

ResolveFrom(known, t, i, left) ==
    IF i > Len(t) THEN <<>>
    ELSE LET e == ForwardRefEnd(t, i)
         IN  IF e # 0
             THEN ResolveMatch(known, t, i, e, left) \o ResolveFrom(known, t, e + 1, left)
             ELSE <<t[i]>> \o ResolveFrom(known, t, i + 1, left)

resolve_forward_ref_on_line(known, line) == ResolveFrom(known, line, 1, MaxNesting)

\* re.search('_\w+_\w+', t): <<p, e>>, the first match t[p..e] (\w+ is greedy
\* and takes underscores), <<0, 0>> when nothing matches
NameMatch(t) ==
    LET ok(p) == /\ t[p] = "_"
                 /\ \E q \in (p + 2)..(WordRunEnd(t, p) - 1) : t[q] = "_"
    IN  IF \E p \in 1..Len(t) : ok(p)
        THEN LET p == CHOOSE x \in 1..Len(t) : ok(x) /\ \A y \in 1..(x - 1) : ~ok(y)
             IN  <<p, WordRunEnd(t, p)>>
        ELSE <<0, 0>>

\* resolved_fw_ref.split(': ')
RECURSIVE SplitAt(_, _)
SplitAt(t, sep) ==
    IF \E i \in 1..Len(t) : t[i] = sep
    THEN LET i == CHOOSE x \in 1..Len(t) : t[x] = sep /\ \A y \in 1..(x - 1) : t[y] # sep
         IN  <<SubSeq(t, 1, i - 1)>> \o SplitAt(SubSeq(t, i + 1, Len(t)), sep)
    ELSE <<t>>

\* lines 213-220 for one resolved line: the reference it adds to
\* td_cross_references[td_name], <<>> when it adds none
CrossRefOf(resolved_fw_ref) ==
    LET splits == SplitAt(resolved_fw_ref, ": ")
    IN  IF Len(splits) = 2 /\ NameMatch(splits[2]) # <<0, 0>>
        THEN StripQuotes(splits[2])
        ELSE <<>>

\* the references of the lines, each once, in the order of their first line
RECURSIVE CrossRefs(_, _)
CrossRefs(lines, acc) ==
    IF lines = <<>> THEN acc
    ELSE LET r == CrossRefOf(Head(lines))
         IN  CrossRefs(Tail(lines),
                       IF r = <<>> \/ (\E k \in 1..Len(acc) : acc[k] = r) THEN acc
                       ELSE Append(acc, r))

\* line 226: the node a recorded reference points at
EdgeTarget(ref) == LET m == NameMatch(ref) IN SubSeq(ref, m[1], m[2])

\* lines 223-226
EdgesOf(cross) ==
    UNION { { <<cross[k].name, EdgeTarget(cross[k].refs[j])>> :
                j \in 1..Len(cross[k].refs) } : k \in 1..Len(cross) }

\* nx.simple_cycles(nx.DiGraph(edges)): every elementary circuit once, a
\* self-loop as a circuit of one node.  The library fixes neither the circuit's
\* first node nor the order of the circuits: a circuit is the set of its rotations.
RECURSIVE CircuitsFrom(_, _)
CircuitsFrom(edges, path) ==
    LET last == path[Len(path)]
        seen == {path[k] : k \in 1..Len(path)}
        succ == {e[2] : e \in {x \in edges : x[1] = last}}
    IN  (IF <<last, path[1]>> \in edges THEN {path} ELSE {})
        \cup UNION {CircuitsFrom(edges, Append(path, n)) : n \in succ \ seen}

Rotations(c) ==
    { [k \in 1..Len(c) |-> c[((k + r - 1) % Len(c)) + 1]] : r \in 0..(Len(c) - 1) }

simple_cycles(edges) ==
    LET nodes == {e[1] : e \in edges} \cup {e[2] : e \in edges}
    IN  { Rotations(c) : c \in UNION {CircuitsFrom(edges, <<n>>) : n \in nodes} }

(***************************************************************************)
(* gen_spec, step by step.                                                 *)
(***************************************************************************)
\* self.header: the dedented lines of the doc string; utcnow is the clock
HeaderLines ==
    << <<"Automatically generated by ./utils/generate_protocol_types">>,
       <<"Attention! This file should not be modified directly! Instead, use the script to create it. ">>,
       <<>>,
       <<"Last regeneration: ", "utcnow">> >>

\* TypingCodeGenerator.init_imports
ImportLines ==
    << <<"import sys">>, <<>>, <<>>, <<"from typing import List, Dict, Any">>, <<>>, <<>>,
       <<"if sys.version_info < (3,8):">>,
       <<"    ", "from typing_extensions import Literal, TypedDict">>,
       <<"else:">>,
       <<"    ", "from typing import Literal, TypedDict">>,
       <<>>, <<>>, <<>> >>

\* d.get(key, [])
GetList(d, key) == IF Has(d, key) THEN d[key] ELSE <<>>

\* lines 138-149 for one type_info; acc holds domain_known_types, typed_dicts,
\* code_lines and the loop variable
TypeStep(acc, info, domain_name) ==
    LET obj == Has(info, "properties")
        type == IF obj THEN <<"_", domain_name, "_", info["id"]>>
                ELSE convert_js_to_py_type(info, domain_name)
    IN  [known |-> (<<info["id"]>> :> type) @@ acc.known,
         typed_dicts |-> IF obj
                         THEN DictUpdate(acc.typed_dicts,
                                         generate_typed_dicts(info, domain_name, type, 0))
                         ELSE acc.typed_dicts,
         code_lines |-> acc.code_lines \o CommentLines(info, 2)
                        \o << Indent(2) \o <<info["id"], " = ">> \o type >>,
         type_info |-> info]

\* lines 154-161 and 163-170: one alias of a command; key is parameters or
\* returns, suffix is Parameters or ReturnValue
CommandAlias(acc, info, domain_name, key, suffix) ==
    LET type == IF Has(info, key) THEN <<info["name"], "_", domain_name, "_", suffix>>
                ELSE <<"None">>
    IN  [acc EXCEPT
           !.known = (<<info["name"], suffix>> :> type) @@ @,
           !.typed_dicts = IF Has(info, key)
                           THEN DictUpdate(@, generate_typed_dicts(info, domain_name, type, 0))
                           ELSE @,
           !.code_lines = @ \o << Indent(2) \o <<info["name"], suffix, " = ">> \o type >>]

\* lines 151-170 for one command_info
CommandStep(acc, info, domain_name) ==
    CommandAlias(
        CommandAlias([acc EXCEPT !.code_lines = @ \o CommentLines(info, 2)],
                     info, domain_name, "parameters", "Parameters"),
        info, domain_name, "returns", "ReturnValue")

RECURSIVE TypeLoop(_, _, _)
TypeLoop(acc, infos, domain_name) ==
    IF infos = <<>> THEN acc
    ELSE TypeLoop(TypeStep(acc, Head(infos), domain_name), Tail(infos), domain_name)

RECURSIVE CommandLoop(_, _, _)
CommandLoop(acc, infos, domain_name) ==
    IF infos = <<>> THEN acc
    ELSE CommandLoop(CommandStep(acc, Head(infos), domain_name), Tail(infos), domain_name)

\* lines 133-172 for one domain
DomainStep(acc, d) ==
    LET open == [acc EXCEPT
                   !.known = <<>>,
                   !.code_lines = @ \o << Indent(1) \o <<"class ", d["domain"], ":">> >>
                                    \o CommentLines(d, 1)]
        done == CommandLoop(TypeLoop(open, GetList(d, "types"), d["domain"]),
                            GetList(d, "commands"), d["domain"])
    IN  [done EXCEPT !.code_lines = @ \o Newlines(1, 2)]

\* lines 174-199: one lookup table
RECURSIVE TableEntries(_, _, _)
TableEntries(domains, key, suffix) ==
    IF domains = <<>> THEN <<>>
    ELSE LET d == Head(domains)
             items == GetList(d, key)
         IN  [k \in 1..Len(items) |->
                 Indent(2) \o <<d["domain"], ".", items[k]["name"], " = ",
                                "'", "Protocol", ".", d["domain"], ".",
                                items[k]["name"], suffix, "'">>]
             \o TableEntries(Tail(domains), key, suffix)

Table(domains, title, key, suffix) ==
    << Indent(1) \o <<"class ", title, ":">> >> \o TableEntries(domains, key, suffix)

\* not line.strip()
IsBlank(line) == \A k \in 1..Len(line) : line[k] = "    "

\* lines 203-207 for one line
ResolveCodeLine(known, line) ==
    IF IsBlank(line) \/ ~Contains(line, <<"Protocol">>) THEN line
    ELSE resolve_forward_ref_on_line(known, line)

\* the exception the lines of a step hold, "" if none
ErrorIn(lines) == FirstError(Flatten(lines))

RECURSIVE TdLines(_)
TdLines(tds) == IF tds = <<>> THEN <<>> ELSE Head(tds).code_lines \o TdLines(Tail(tds))

(***************************************************************************)
(* The schemas the endpoint may serve.                                     *)
(***************************************************************************)
Ref(path) == "$ref" :> path
Prim(n) == [type |-> n]
ArrayOf(d) == [type |-> "array", items |-> d]
Enum == [type |-> "string", enum |-> <<"a", "b">>]
Field(name, d) == [name |-> name] @@ d
Alias(id, d) == [id |-> id] @@ d
Object(id, fields) == [id |-> id, type |-> "object", properties |-> fields]

\* object types A, B and C of one domain, referring to each other along the
\* edges of refs, every reference direct or every reference in an array
Ids == <<"A", "B", "C">>
FieldName == [A |-> "a", B |-> "b", C |-> "c"]

GraphType(id, refs, wrap) ==
    LET targets == SelectSeq(Ids, LAMBDA y : <<id, y>> \in refs)
    IN  Object(id, << Field("n", Prim("integer")) >> \o
                   [k \in 1..Len(targets) |->
                       Field(FieldName[targets[k]],
                             IF wrap THEN ArrayOf(Ref(<<targets[k]>>))
                             ELSE Ref(<<targets[k]>>))])

GraphSchemas ==
    { [domains |-> << [domain |-> "D",
                       types |-> [k \in 1..Len(Ids) |-> GraphType(Ids[k], refs, wrap)]] >>] :
        refs \in {r \in SUBSET ({"A", "B", "C"} \X {"A", "B", "C"}) : Cardinality(r) <= MaxRefs},
        wrap \in BOOLEAN }

\* a type that refers to itself, under a plain name and under a name that
\* holds the depth marker
SelfSchemas ==
    { [domains |-> << [domain |-> "D",
                       types |-> << Object(id, << Field("x", d) >>) >>] >>] :
        id \in {"T", "FWRef"},
        d \in {Ref(<<id>>) : id \in {"T", "FWRef"}}
              \cup {ArrayOf(Ref(<<id>>)) : id \in {"T", "FWRef"}} }

\* the descriptor shapes: primitives known and unknown, references of one, two
\* and three segments, an enum, arrays of each
Descriptors ==
    { Prim("string"), Prim("null"), Enum,
      Ref(<<"A">>), Ref(<<"B">>), Ref(<<"C">>), Ref(<<"D", ".", "B">>), Ref(<<"a", ".", "b", ".", "c">>),
      ArrayOf(Ref(<<"A">>)), ArrayOf(Ref(<<"B">>)), ArrayOf(Ref(<<"a", ".", "b", ".", "c">>)),
      ArrayOf(Prim("string")), ArrayOf(Enum), ArrayOf([enum |-> <<"a", "b">>]),
      ArrayOf(ArrayOf(Prim("string"))) }

\* A an alias, B an alias or an object of one field, and possibly a third
\* type C that refers to A
AliasSchemas ==
    { [domains |-> << [domain |-> "D", types |-> << Alias("A", d1) >> \o b \o c] >>] :
        d1 \in Descriptors,
        b \in { << Alias("B", d2) >> : d2 \in Descriptors }
              \cup { << Object("B", << Field("x", d2) >>) >> : d2 \in Descriptors },
        c \in { <<>>, << Alias("C", Ref(<<"A">>)) >>,
                << Object("C", << Field("x", Ref(<<"A">>)) >>) >> } }

\* commands with and without parameters and returns, events, declared types
\* or none, one domain or two
Parameters == << Field("p", Prim("integer")) @@ [optional |-> TRUE], Field("q", Prim("string")) >>
Returns == << Field("r", Prim("boolean")) >>

CommandShapes(name) ==
    { [name |-> name],
      [name |-> name, parameters |-> Parameters],
      [name |-> name, returns |-> Returns],
      [name |-> name, parameters |-> Parameters, returns |-> Returns] }

CommandLists ==
    { <<>> } \cup { <<c1>> : c1 \in CommandShapes("foo") }
    \cup { <<c1, c2>> : c1 \in CommandShapes("foo"), c2 \in CommandShapes("bar") }

TypeLists ==
    { << Alias("H", Prim("object")) >>,
      << Alias("H", Prim("object")) @@ [description |-> "text"] >>,
      << Object("O", << Field("x", Prim("string")) >>), Alias("H", Prim("object")) >>,
      << Object("O", << Field("x", Prim("string")) >>) >> }

CommandSchemas ==
    { [domains |-> pre \o << [domain |-> "D", commands |-> cs] @@ ts @@ es >>] :
        cs \in CommandLists,
        ts \in { <<>> } \cup { [types |-> t] : t \in TypeLists },
        es \in { <<>>, [events |-> << [name |-> "ev", parameters |-> Parameters] >>] },
        pre \in { <<>>, << [domain |-> "E", types |-> << Alias("H", Prim("string")) >>] >> } }

\* a page that is no JSON document
Garbage == [garbage |-> TRUE]

Schemas == GraphSchemas \cup SelfSchemas \cup AliasSchemas \cup CommandSchemas

(***************************************************************************)
(* The run: __main__.                                                      *)
(***************************************************************************)
VARIABLES
    pc,                   \* the statement the run has reached
    err,                  \* the exception that ended the run, "" if none
    raised_in,            \* the statement that raised it
    page,                 \* what the endpoint serves at /json/protocol
    warned,               \* browser.close() raised and a warning was logged
    domain,               \* self.domain
    all_known_types,      \* self.all_known_types
    typed_dicts,          \* self.typed_dicts, in insertion order
    td_cross_references,  \* self.td_cross_references
    code_lines,           \* self.code_gen.code_lines
    inserted_lines,       \* self.code_gen.inserted_lines
    type_info,            \* gen_spec's loop variable type_info
    di,                   \* the domain the walk has reached
    cycles,               \* the circuits simple_cycles has not yielded yet
    broken,               \* the (start, cycling_start) the loop has processed
    file                  \* the output file

vars == <<pc, err, raised_in, page, warned, domain, all_known_types, typed_dicts,
          td_cross_references, code_lines, inserted_lines, type_info, di,
          cycles, broken, file>>

gen == <<all_known_types, typed_dicts, td_cross_references, code_lines,
         inserted_lines, type_info, di, cycles, broken>>

Unbound == [unbound |-> TRUE]
NoFile == [exists |-> FALSE, text |-> <<>>]

Init ==
    /\ pc = "launch"
    /\ err = ""
    /\ raised_in = ""
    /\ page \in Schemas \cup {Garbage}
    /\ warned = FALSE
    /\ domain = Unbound
    /\ all_known_types = <<>>
    /\ typed_dicts = <<>>
    /\ td_cross_references = <<>>
    /\ code_lines = <<>>
    /\ inserted_lines = <<>>
    /\ type_info = Unbound
    /\ di = 0
    /\ cycles = {}
    /\ broken = <<>>
    /\ file = NoFile

\* an exception caught around the calls of __main__, the run going on to
\* write_generated_code
RaiseAndContinue(e) ==
    /\ pc' = "write"
    /\ err' = e
    /\ raised_in' = pc
    /\ UNCHANGED <<page, warned, domain, gen, file>>

\* an exception leaves the run: __main__ catches nothing, so nothing after the
\* raising statement executes
Raise(e) ==
    /\ pc' = "failed"
    /\ err' = e
    /\ raised_in' = pc
    /\ UNCHANGED <<page, warned, domain, gen, file>>

\* lines 90-98: launch, newPage, goto and evaluate; any of them may raise
Fetch ==
    /\ pc = "launch"
    /\ \/ Raise("FetchError")
       \/ /\ pc' = "close"
          /\ UNCHANGED <<err, raised_in, page, warned, domain, gen, file>>

\* lines 99-102: an exception of browser.close() is logged, not raised
CloseBrowser ==
    /\ pc = "close"
    /\ warned' \in BOOLEAN
    /\ pc' = "loads"
    /\ UNCHANGED <<err, raised_in, page, domain, gen, file>>

\* line 105
LoadJson ==
    /\ pc = "loads"
    /\ IF page = Garbage THEN Raise("JSONDecodeError")
       ELSE /\ domain' = page
            /\ pc' = "gen_spec"
            /\ UNCHANGED <<err, raised_in, page, warned, gen, file>>

\* lines 122-130
GenSpecBegin ==
    /\ pc = "gen_spec"
    /\ inserted_lines' = << <<"\"\"\"">> >> \o HeaderLines \o << <<"\"\"\"">> >>
    /\ code_lines' = Newlines(2, 0) \o << <<"class ", "Protocol", ":">> >>
    /\ di' = 1
    /\ pc' = "walk"
    /\ UNCHANGED <<err, raised_in, page, warned, domain, all_known_types, typed_dicts,
                   td_cross_references, type_info, cycles, broken, file>>

\* lines 132-172, one domain
WalkDomain ==
    /\ pc = "walk"
    /\ di <= Len(domain["domains"])
    /\ LET d == domain["domains"][di]
           acc == DomainStep([known |-> <<>>, typed_dicts |-> typed_dicts,
                              code_lines |-> code_lines, type_info |-> type_info], d)
           e == ErrorIn(acc.code_lines \o TdLines(acc.typed_dicts))
       IN  IF e # "" THEN Raise(e)
           ELSE /\ all_known_types' = (<<d["domain"]>> :> acc.known) @@ all_known_types
                /\ typed_dicts' = acc.typed_dicts
                /\ code_lines' = acc.code_lines
                /\ type_info' = acc.type_info
                /\ di' = di + 1
                /\ UNCHANGED <<pc, err, raised_in, page, warned, domain, td_cross_references,
                               inserted_lines, cycles, broken, file>>

\* lines 174-199
EmitTables ==
    /\ pc = "walk"
    /\ di > Len(domain["domains"])
    /\ code_lines' = code_lines
          \o Table(domain["domains"], "Events", "events", "Payload")
          \o Table(domain["domains"], "CommandParameters", "commands", "Parameters")
          \o Table(domain["domains"], "CommandReturnValues", "commands", "ReturnValue")
    /\ pc' = "pass1"
    /\ UNCHANGED <<err, raised_in, page, warned, domain, all_known_types, typed_dicts,
                   td_cross_references, inserted_lines, type_info, di, cycles, broken, file>>

\* lines 203-207
ResolveProtocolClass ==
    /\ pc = "pass1"
    /\ LET lines == [k \in 1..Len(code_lines) |-> ResolveCodeLine(all_known_types, code_lines[k])]
       IN  IF ErrorIn(lines) # "" THEN Raise(ErrorIn(lines))
           ELSE /\ code_lines' = lines
                /\ pc' = "pass2"
                /\ UNCHANGED <<err, raised_in, page, warned, domain, all_known_types, typed_dicts,
                               td_cross_references, inserted_lines, type_info, di,
                               cycles, broken, file>>

\* lines 210-221
ResolveTypedDicts ==
    /\ pc = "pass2"
    /\ LET tds == [k \in 1..Len(typed_dicts) |->
                     [typed_dicts[k] EXCEPT !.code_lines =
                        [j \in 1..Len(@) |-> resolve_forward_ref_on_line(all_known_types, @[j])]]]
           cross == [k \in 1..Len(tds) |->
                       [name |-> tds[k].name, refs |-> CrossRefs(tds[k].code_lines, <<>>)]]
       IN  IF ErrorIn(TdLines(tds)) # "" THEN Raise(ErrorIn(TdLines(tds)))
           ELSE /\ typed_dicts' = tds
                /\ td_cross_references' = SelectSeq(cross, LAMBDA c : c.refs # <<>>)
                /\ pc' = "edges"
                /\ UNCHANGED <<err, raised_in, page, warned, domain, all_known_types, code_lines,
                               inserted_lines, type_info, di, cycles, broken, file>>

\* lines 223-229: the edges, the graph and the generator of its circuits
FindCycles ==
    /\ pc = "edges"
    /\ cycles' = simple_cycles(EdgesOf(td_cross_references))
    /\ pc' = "cycles"
    /\ UNCHANGED <<err, raised_in, page, warned, domain, all_known_types, typed_dicts,
                   td_cross_references, code_lines, inserted_lines, type_info, di,
                   broken, file>>

\* lines 234-239: the lines of start with the quoted name of cycling_start
\* replaced by the quoted name of the stub
RedirectLines(lines, cycling_start, expanded_cyclic_reference) ==
    [k \in 1..Len(lines) |->
        IF Contains(lines[k], cycling_start)
        THEN Replace(lines[k], <<"'">> \o cycling_start \o <<"'">>,
                     <<"'">> \o expanded_cyclic_reference \o <<"'">>)
        ELSE lines[k]]

\* lines 229-239, one circuit: the tuple assignment raises unless the circuit
\* has two nodes
BreakCycle ==
    /\ pc = "cycles"
    /\ \E c \in cycles : \E cycle \in c :
         IF Len(cycle) # 2 THEN Raise("!ValueError")
         ELSE LET start == cycle[1]
                  cycling_start == cycle[2]
                  expanded_cyclic_reference ==
                      start \o <<"_", "cyclic", "_", "ref">> \o cycling_start
              IN  IF TdIndex(typed_dicts, cycling_start) = 0 \/ TdIndex(typed_dicts, start) = 0
                  THEN Raise("!KeyError")
                  ELSE LET stub == copy_with_filter(
                                       typed_dicts[TdIndex(typed_dicts, cycling_start)],
                                       expanded_cyclic_reference)
                           tds == DictSet(typed_dicts, stub)
                           i == TdIndex(tds, start)
                       IN  /\ typed_dicts' =
                                [tds EXCEPT ![i].code_lines =
                                    RedirectLines(@, cycling_start, expanded_cyclic_reference)]
                           /\ cycles' = cycles \ {c}
                           /\ broken' = Append(broken, cycle)
                           /\ UNCHANGED <<pc, err, raised_in, page, warned, domain, all_known_types,
                                          td_cross_references, code_lines, inserted_lines,
                                          type_info, di, file>>

\* lines 242-246: the lines gen_spec inserts for the TypedDicts; last is
\* last_item_index
RECURSIVE InsertedTypedDicts(_, _, _)
InsertedTypedDicts(tds, index, last) ==
    IF index > Len(tds) THEN <<>>
    ELSE tds[index].code_lines
         \o (IF index - 1 < last THEN Newlines(1, 0) ELSE <<>>)
         \o InsertedTypedDicts(tds, index + 1, last)

\* line 242
last_item_index == Cardinality(DOMAIN type_info) - 1

\* lines 241-250
InsertTypedDicts ==
    /\ pc = "cycles"
    /\ cycles = {}
    /\ IF type_info = Unbound THEN Raise("!UnboundLocalError")
       ELSE /\ typed_dicts' =
                  [k \in 1..Len(typed_dicts) |->
                      IF k - 1 < last_item_index
                      THEN [typed_dicts[k] EXCEPT !.code_lines = @ \o Newlines(1, 0)]
                      ELSE typed_dicts[k]]
            /\ inserted_lines' = inserted_lines
                                 \o InsertedTypedDicts(typed_dicts, 1, last_item_index)
            /\ code_lines' = code_lines \o Newlines(1, 0)
            /\ pc' = "write"
            /\ UNCHANGED <<err, raised_in, page, warned, domain, all_known_types, td_cross_references,
                           type_info, di, cycles, broken, file>>

\* TypingCodeGenerator.__str__
Document ==
    Join(ImportLines, "\n") \o Join(inserted_lines, "\n") \o Join(code_lines, "\n")

\* write_generated_code: open may raise; write may raise on the opened file
WriteGeneratedCode ==
    /\ pc = "write"
    /\ \/ Raise("OSError")
       \/ /\ file' = [exists |-> TRUE, text |-> <<>>]
          /\ pc' = "failed"
          /\ err' = "OSError"
          /\ raised_in' = pc
          /\ UNCHANGED <<page, warned, domain, gen>>
       \/ /\ file' = [exists |-> TRUE, text |-> Document]
          /\ pc' = "done"
          /\ UNCHANGED <<err, raised_in, page, warned, domain, gen>>

Next ==
    \/ Fetch
    \/ CloseBrowser
    \/ LoadJson
    \/ GenSpecBegin
    \/ WalkDomain
    \/ EmitTables
    \/ ResolveProtocolClass
    \/ ResolveTypedDicts
    \/ FindCycles
    \/ BreakCycle
    \/ InsertTypedDicts
    \/ WriteGeneratedCode

Spec == Init /\ [][Next]_vars

(***************************************************************************)
(* Properties.                                                             *)
(***************************************************************************)
Quoted(name) == <<"'">> \o name \o <<"'">>

\* text p is a prefix of text t
IsPrefix(p, t) == StartsAt(t, 1, p)

\* the domains the walk has completed
Walked == IF pc \in {"launch", "close", "loads", "gen_spec"} \/ domain = Unbound
          THEN {} ELSE 1..(di - 1)

\* the cross-reference graph of the TypedDicts as they stand, taken from their
\* lines the way pass 2 takes it
CurrentEdges ==
    EdgesOf([k \in 1..Len(typed_dicts) |->
                [name |-> typed_dicts[k].name,
                 refs |-> CrossRefs(typed_dicts[k].code_lines, <<>>)]])

\* the loop of lines 229-239 has run to its end
CyclesBroken == pc = "cycles" /\ cycles = {}

\* the TypedDict called name
Td(name) == typed_dicts[TdIndex(typed_dicts, name)]

StubName(cycle) == cycle[1] \o <<"_", "cyclic", "_", "ref">> \o cycle[2]

\* C1: when the loop over the circuits has run to its end (every circuit had
\* two structures), the reference graph over all TypedDicts, stubs included,
\* has no circuit, and for every processed (start, cycling_start) the stub is
\* registered, the lines of start hold the quoted stub name and none of them
\* holds the quoted name of cycling_start.
C1_TwoCyclesBroken ==
    CyclesBroken =>
        /\ simple_cycles(CurrentEdges) = {}
        /\ \A k \in 1..Len(broken) :
              /\ TdIndex(typed_dicts, StubName(broken[k])) # 0
              /\ \E j \in 1..Len(Td(broken[k][1]).code_lines) :
                    Contains(Td(broken[k][1]).code_lines[j], Quoted(StubName(broken[k])))
              /\ \A j \in 1..Len(Td(broken[k][1]).code_lines) :
                    ~Contains(Td(broken[k][1]).code_lines[j], Quoted(broken[k][2]))

\* two circuits that share a structure have been broken
C1_Witness ==
    /\ CyclesBroken
    /\ Len(broken) = 2
    /\ {broken[1][1], broken[1][2]} \cap {broken[2][1], broken[2][2]} # {}

\* no circuit of the graph is a self-loop
NoSelfLoops == \A c \in cycles : \A cycle \in c : Len(cycle) >= 2

\* C2: once pass 2 is done gen_spec reaches emission (on a graph of circuits
\* of two or more structures the loop over the circuits raises nothing), and
\* at emission the reference graph over all TypedDicts has no circuit of any
\* length.
C2_AlwaysAcyclic ==
    /\ ~(pc = "failed" /\ raised_in = "cycles" /\ NoSelfLoops)
    /\ pc \in {"write", "done"} => simple_cycles(CurrentEdges) = {}

\* a type_info whose field list holds its own absolute reference token
SelfReferential(info, domain_name) ==
    /\ Has(info, "properties")
    /\ \E i \in 1..Len(info["properties"]) :
          Contains(convert_js_to_py_type(info["properties"][i], domain_name),
                   get_forward_ref(<<info["id"]>>, domain_name))

\* the TypedDicts registered for the type called base: those whose name
\* starts with base
StructuresOf(base) == SelectSeq(typed_dicts, LAMBDA td : IsPrefix(base, td.name))

\* the lines of td hold the text ref
Mentions(td, ref) == \E j \in 2..Len(td.code_lines) : Contains(td.code_lines[j], ref)

\* C3: after the walk of a domain, every self-referential type of it has
\* exactly three TypedDicts: the base and two auxiliary levels, each named
\* base_FWRef<depth> with one marker; the base mentions the first level, the
\* first the second, and the second holds the fallback type and no level.
C3_ThreeStructures ==
    pc = "walk" =>
        \A k \in Walked :
            \A i \in 1..Len(GetList(domain["domains"][k], "types")) :
                LET info == domain["domains"][k]["types"][i]
                    dn == domain["domains"][k]["domain"]
                    base == <<"_", dn, "_", info["id"]>>
                    tds == StructuresOf(base)
                IN  SelfReferential(info, dn) =>
                        /\ Len(tds) = 3
                        /\ tds[1].name = base
                        /\ \A j \in 2..3 :
                              /\ IsPrefix(base \o <<"_", "FWRef">>, tds[j].name)
                              /\ Len(tds[j].name) = Len(base) + 3
                        /\ Mentions(tds[1], tds[2].name)
                        /\ Mentions(tds[2], tds[3].name)
                        /\ Mentions(tds[3], <<"Dict[str, Dict[str, Any]]">>)
                        /\ ~Mentions(tds[3], <<"FWRef">>)

\* the names of the fields of a TypedDict, from its lines
FieldNames(td) == [j \in 1..(Len(td.code_lines) - 1) |-> td.code_lines[j + 1][2]]

\* C4: after the walk of a domain, for every command of it that has both
\* returns and parameters, the TypedDict of the ReturnValue alias has the
\* fields of returns, and the TypedDict of the Parameters alias has the fields
\* and the totality flag of parameters.
C4_ParametersFromParameters ==
    pc = "walk" =>
        \A k \in Walked :
            \A i \in 1..Len(GetList(domain["domains"][k], "commands")) :
                LET info == domain["domains"][k]["commands"][i]
                    dn == domain["domains"][k]["domain"]
                    names(key) == [j \in 1..Len(info[key]) |-> info[key][j]["name"]]
                    ret == Td(all_known_types[<<dn>>][<<info["name"], "ReturnValue">>])
                    par == Td(all_known_types[<<dn>>][<<info["name"], "Parameters">>])
                IN  Has(info, "returns") /\ Has(info, "parameters") =>
                        /\ FieldNames(ret) = names("returns")
                        /\ ret.total = IsTotal(info["returns"])
                        /\ FieldNames(par) = names("parameters")
                        /\ par.total = IsTotal(info["parameters"])

\* some domain of the schema declares an event
HasEvents(schema) ==
    \E k \in 1..Len(schema["domains"]) : GetList(schema["domains"][k], "events") # <<>>

\* the entries of the three lookup tables as gen_spec emits them
TableLines ==
    TableEntries(domain["domains"], "events", "Payload")
    \o TableEntries(domain["domains"], "commands", "Parameters")
    \o TableEntries(domain["domains"], "commands", "ReturnValue")

\* C5: for a schema that declares events, pass 1 raises nothing; and after
\* pass 1 every entry of the Events, CommandParameters and CommandReturnValues
\* tables still holds the absolute forward-reference token of its payload.
C5_TablesHoldTokens ==
    /\ (pc = "failed" /\ raised_in = "pass1") => ~HasEvents(domain)
    /\ pc \in {"pass2", "edges", "cycles", "write", "done"} =>
          \A k \in 1..Len(TableLines) :
              \E j \in 1..Len(code_lines) : code_lines[j] = TableLines[k]

\* a token built from a path of three segments
MalformedToken == <<"'", "Protocol", ".", "D", ".", "a", ".", "b", ".", "c", "'">>

\* C6: no output holds a token built from a reference path of three segments.
C6_NoMalformedToken ==
    file.exists => ~Contains(file.text, MalformedToken)

\* every circuit of the graph is a self-loop
OnlySelfLoops == cycles # {} /\ \A c \in cycles : \A cycle \in c : Len(cycle) = 1

\* C7: when the circuits of the graph are self-loops, the loop over the
\* circuits raises nothing, and once it has run to its end every self-loop
\* has a registered stub.
C7_SelfLoopBroken ==
    /\ ~(pc = "failed" /\ raised_in = "cycles" /\ OnlySelfLoops)
    /\ CyclesBroken =>
          \A k \in 1..Len(broken) :
              TdIndex(typed_dicts, StubName(broken[k])) # 0

\* the conversion of a descriptor with the element of an array converted as
\* a whole
RECURSIVE ConvertWhole(_, _)
ConvertWhole(d, domain_name) ==
    IF Has(d, "items")
    THEN <<"List", "[">> \o ConvertWhole(d["items"], domain_name) \o <<"]">>
    ELSE convert_js_to_py_type(d, domain_name)

\* C8: after the walk of a domain, the registered value of every array type
\* of it is List[X], X the absolute token of a referenced element and
\* otherwise the conversion of the whole element descriptor.
C8_ArrayElementConverted ==
    pc = "walk" =>
        \A k \in Walked :
            \A i \in 1..Len(GetList(domain["domains"][k], "types")) :
                LET info == domain["domains"][k]["types"][i]
                    dn == domain["domains"][k]["domain"]
                IN  Has(info, "items") =>
                        all_known_types[<<dn>>][<<info["id"]>>] = ConvertWhole(info, dn)

\* C9: the emission step raises nothing and inserts the TypedDicts in their
\* order of construction, a blank-line separator after each but the last.
C9_SeparatorAfterEachButLast ==
    [][(pc = "cycles" /\ cycles = {}) =>
          /\ pc' = "write"
          /\ inserted_lines' = inserted_lines
                \o InsertedTypedDicts(typed_dicts, 1, Len(typed_dicts) - 1)]_vars

\* gen_spec has run through all its steps
GenSpecReturned ==
    /\ domain = page
    /\ di = Len(domain["domains"]) + 1
    /\ cycles = {}
    /\ Len(inserted_lines) >= 6

\* C10: the output file is opened only by write_generated_code, after the
\* fetch and every step of gen_spec have completed; a run that an earlier step
\* ended has no output file; browser.close() never ends the run.
C10_WriteOnlyAfterGenSpec ==
    /\ file.exists => raised_in \in {"", "write"} /\ pc \in {"done", "failed"} /\ GenSpecReturned
    /\ (pc = "failed" /\ raised_in # "write") => file = NoFile
    /\ raised_in # "close"
    /\ pc \in {"write", "done"} => err = "" /\ GenSpecReturned

\* the run went on after browser.close() raised, and wrote the document
C10_Witness == warned /\ pc = "done" /\ file.exists /\ file.text = Document

\* the registry entries (domain, name) that the value registered under
\* (d, r) holds a forward-reference token for
AliasTargets(known, d, r) ==
    LET t == known[d][r]
    IN  { <<SubSeq(t, i + 3, WordRunEnd(t, i + 3)),
            SubSeq(t, WordRunEnd(t, i + 3) + 2, ForwardRefEnd(t, i) - 1)>> :
             i \in {j \in 1..Len(t) : ForwardRefEnd(t, j) # 0} }

\* the entries of the registry
Entries(known) == UNION { { <<d, r>> : r \in DOMAIN known[d] } : d \in DOMAIN known }

\* the entries the resolution of the entries of from goes through, from
\* included; seen are the entries already counted
RECURSIVE ResolvedThrough(_, _, _)
ResolvedThrough(known, from, seen) ==
    LET new == (from \cap Entries(known)) \ seen
    IN  IF new = {} THEN seen
        ELSE ResolvedThrough(known,
                             UNION { AliasTargets(known, n[1], n[2]) : n \in new },
                             seen \cup new)

\* the resolution of the value registered under n comes back to n
OnAliasCycle(known, n) ==
    n \in ResolvedThrough(known, AliasTargets(known, n[1], n[2]), {})

\* C11: the entries of the registry the walk builds form no reference cycle,
\* and no resolution of a token exhausts the nesting the interpreter allows:
\* no run ends in a RecursionError.
C11_ResolutionBounded ==
    /\ \A n \in Entries(all_known_types) : ~OnAliasCycle(all_known_types, n)
    /\ err # "!RecursionError"

\* a line that holds the name of a TypedDict of a type (_<domain>_<id>)
\* behind two quotes in a row: the name wrapped in quotes twice
DoublyQuoted(line) ==
    \E i \in 1..(Len(line) - 2) :
        line[i] = "'" /\ line[i + 1] = "'" /\ line[i + 2] = "_"

\* the lines the two passes have resolved
ResolvedLines ==
    IF pc = "pass2" THEN code_lines ELSE code_lines \o TdLines(typed_dicts)

\* C12: once a pass has resolved its lines, none of them holds a structure
\* name wrapped in quotes more than once, also where the token stood for an
\* alias that is resolved through another token.
C12_QuotedOnce ==
    pc \in {"pass2", "edges", "cycles", "write", "done"} =>
        \A k \in 1..Len(ResolvedLines) : ~DoublyQuoted(ResolvedLines[k])

====
